---- MODULE Spec2Model ----
(***************************************************************************)
(* Account operations of graphene::chain (libraries/chain/protocol/        *)
(* account.cpp): the account-name grammar, the cheap-name heuristic, the   *)
(* vote-count check of account_options, the fee formulas, and validate()   *)
(* of account_create_operation and account_update_operation.               *)
(*                                                                         *)
(* Characters are one-character strings.  The code distinguishes only      *)
(* classes of characters, so each class is represented by one or two       *)
(* members: "a" (a lowercase vowel), "b" (a lowercase consonant), "A" (an  *)
(* uppercase letter), "1" (a digit), "-", ".", "/" and "_" (anything       *)
(* else).  C++ indices are 0-based: name[k] in the code is name[k+1] here. *)
(***************************************************************************)
EXTENDS Integers, Sequences, FiniteSets, TLC

VARIABLES
    name,      \* the string handed to is_valid_name / is_cheap_name
    loop,      \* is_valid_name: its locals and its position
    cheap,     \* is_cheap_name: "none" before the call, then "true" or "false"
    op,        \* the operation validate() / calculate_fee() is called on
    sched,     \* the fee_parameters_type handed to calculate_fee
    pc,        \* validate(): the statement it is at
    err,       \* validate(): "none", or the FC_ASSERT that threw
    pos,       \* validate(): index into the extension list being visited
    fee,       \* calculate_fee(): -1 before the call, then its result
    build      \* how the build resolves `optional > 0` (account.cpp:243)

vars == <<name, loop, cheap, op, sched, pc, err, pos, fee, build>>

----------------------------------------------------------------------------
(* Bounds and constants *)

\* GRAPHENE_MIN_ACCOUNT_NAME_LENGTH: the #if of is_valid_name refuses
\* to compile with less than 3.
GRAPHENE_MIN_ACCOUNT_NAME_LENGTH == 3

\* GRAPHENE_MAX_ACCOUNT_NAME_LENGTH, scaled down (two labels need 7).
GRAPHENE_MAX_ACCOUNT_NAME_LENGTH == 7

\* Names over the full alphabet are enumerated up to this length.
FullLen == 5

\* size_t arithmetic wraps modulo this (scaled down from 2^64).
SizeMod == 2^20

npos == SizeMod - 1

----------------------------------------------------------------------------
(* Characters *)

Lower == {"a", "b"}
Vowel == {"a"}
Digit == {"1"}

Strings(A, n) == UNION {[1..k -> A] : k \in 0..n}

\* s[k] of the code.  std::string::operator[] returns '\0' at k = size();
\* beyond that the read is undefined and is represented by the same value.
CharAt(s, k) == IF k \in 0..(Len(s) - 1) THEN s[k + 1] ELSE "nul"

\* size_t subtraction.
SizeSub(a, b) == (a - b) % SizeMod

----------------------------------------------------------------------------
(* is_valid_name *)

\* the search restarted from the front of the string on every iteration
find_first_of_front(s, c, from) ==
    LET hits == {j \in 0..(Len(s) - 1) : s[j + 1] = c}
    IN  IF hits = {} THEN npos
        ELSE CHOOSE j \in hits : \A h \in hits : j <= h

\* std::string::find_first_of(c, from)
find_first_of(s, c, from) ==
    LET hits == {j \in from..(Len(s) - 1) : s[j + 1] = c}
    IN  IF hits = {} THEN npos
        ELSE CHOOSE j \in hits : \A h \in hits : j <= h

\* the letters of the first switch
IsFirstChar(c) == c \in Lower

\* the second switch with the '-' of the third
IsLastChar_hyphen(c) == c \in Lower \cup Digit \cup {"-"}

\* the letters and digits of the second switch
IsLastChar(c) == c \in Lower \cup Digit

\* the letters, digits and '-' of the third switch
IsInnerChar(c) == c \in Lower \cup Digit \cup {"-"}

LoopInit ==
    [pc |-> "entry", begin |-> 0, end |-> 0, i |-> 0, ret |-> FALSE, rd |-> -1]

Return(st, b) == [st EXCEPT !.pc = "done", !.ret = b, !.rd = -1]

\* One step of is_valid_name from loop state st.  rd is the index the step
\* reads from name (-1: none).
LabelStep(s, st) ==
    LET len == Len(s) IN
    CASE st.pc = "entry" ->
            IF len < GRAPHENE_MIN_ACCOUNT_NAME_LENGTH THEN Return(st, FALSE)
            ELSE IF len > GRAPHENE_MAX_ACCOUNT_NAME_LENGTH THEN Return(st, FALSE)
            ELSE [st EXCEPT !.pc = "find", !.begin = 0]
      [] st.pc = "find" ->
            LET f == find_first_of(s, ".", st.begin)
                e == IF f = npos THEN len ELSE f
            IN  IF SizeSub(e, st.begin) < 3 THEN Return([st EXCEPT !.end = e], FALSE)
                ELSE [st EXCEPT !.pc = "first", !.end = e, !.rd = -1]
      [] st.pc = "first" ->
            IF IsFirstChar(CharAt(s, st.begin))
            THEN [st EXCEPT !.pc = "last", !.rd = st.begin]
            ELSE [Return(st, FALSE) EXCEPT !.rd = st.begin]
      [] st.pc = "last" ->
            IF IsLastChar(CharAt(s, st.end - 1))
            THEN [st EXCEPT !.pc = "inner", !.i = st.begin + 1, !.rd = st.end - 1]
            ELSE [Return(st, FALSE) EXCEPT !.rd = st.end - 1]
      [] st.pc = "inner" ->
            IF st.i < st.end - 1
            THEN IF IsInnerChar(CharAt(s, st.i))
                 THEN [st EXCEPT !.i = st.i + 1, !.rd = st.i]
                 ELSE [Return(st, FALSE) EXCEPT !.rd = st.i]
            ELSE IF st.end = len THEN Return(st, TRUE)
                 ELSE [st EXCEPT !.pc = "find", !.begin = st.end + 1, !.rd = -1]
      [] OTHER -> st

RECURSIVE RunLoop(_, _)
RunLoop(s, st) == IF st.pc = "done" THEN st.ret ELSE RunLoop(s, LabelStep(s, st))

is_valid_name(s) == RunLoop(s, LoopInit)

----------------------------------------------------------------------------
(* Names the name specifications start from *)

NameAlphabet == {"b", "A", "1", "-", ".", "_"}
LongAlphabet == {"b", "1", "."}

Names ==
    Strings(NameAlphabet, FullLen)
        \cup Strings(LongAlphabet, GRAPHENE_MAX_ACCOUNT_NAME_LENGTH + 1)

NoOp == [kind |-> "none"]
NoSched == [kind |-> "none"]

InitName ==
    /\ name \in Names
    /\ loop = LoopInit
    /\ cheap = "none"
    /\ op = NoOp
    /\ sched = NoSched
    /\ pc = "idle"
    /\ err = "none"
    /\ pos = 0
    /\ fee = -1
    /\ build = "value"

ValidNameStep ==
    /\ loop.pc # "done"
    /\ loop' = LabelStep(name, loop)
    /\ UNCHANGED <<name, cheap, op, sched, pc, err, pos, fee, build>>

NextName == ValidNameStep

\* is_valid_name runs to its return: no step of it blocks.
SpecName == InitName /\ [][NextName]_vars /\ WF_vars(NextName)

----------------------------------------------------------------------------
(* The name grammar as the specification states it *)

RECURSIVE SplitDot(_)
SplitDot(s) ==
    LET dots == {k \in 1..Len(s) : s[k] = "."}
    IN  IF dots = {} THEN <<s>>
        ELSE LET d == CHOOSE k \in dots : \A h \in dots : k <= h
             IN  <<SubSeq(s, 1, d - 1)>> \o SplitDot(SubSeq(s, d + 1, Len(s)))

LabelOk(l) ==
    /\ Len(l) >= 3
    /\ l[1] \in Lower
    /\ l[Len(l)] \in Lower \cup Digit
    /\ \A k \in 2..(Len(l) - 1) : l[k] \in Lower \cup Digit \cup {"-"}

NameGrammar(s) ==
    /\ GRAPHENE_MIN_ACCOUNT_NAME_LENGTH <= Len(s)
    /\ Len(s) <= GRAPHENE_MAX_ACCOUNT_NAME_LENGTH
    /\ \A k \in 1..Len(SplitDot(s)) : LabelOk(SplitDot(s)[k])

\* C1: is_valid_name(name) is true iff MIN <= len(name) <= MAX and every
\* label obtained by splitting name on '.', empty labels included, has
\* length >= 3, starts with a lowercase letter, ends with a lowercase letter
\* or digit and has only lowercase letters, digits or hyphens in between.
C1_ValidNameIffGrammar ==
    loop.pc = "done" => (loop.ret <=> NameGrammar(name))

\* a two-label name is accepted
C1_Witness ==
    /\ loop.pc = "done"
    /\ loop.ret
    /\ Len(SplitDot(name)) = 2

\* C10: the label loop of is_valid_name terminates and never reads outside
\* the string: past the search for the dot begin <= end <= len, begin never
\* exceeds len and strictly increases from one iteration to the next, and a
\* character is read only at an index in [0, len-1] of a label with
\* begin + 3 <= end.
C10_LoopBounded ==
    /\ [](loop.begin <= Len(name))
    /\ [](loop.pc # "find" => loop.begin <= loop.end /\ loop.end <= Len(name))
    /\ [](loop.rd # -1 => /\ loop.rd \in 0..(Len(name) - 1)
                          /\ loop.begin + 3 <= loop.end
                          /\ loop.rd \in loop.begin..(loop.end - 1))
    /\ [][loop'.begin # loop.begin => loop'.begin > loop.begin]_vars
    /\ <>(loop.pc = "done")

\* a name with a trailing dot: the last iteration starts at begin = len,
\* finds an empty label and returns without reading
C10_Witness ==
    /\ loop.pc = "done"
    /\ loop.begin > 0
    /\ loop.begin = Len(name)
    /\ loop.end = Len(name)
    /\ name[Len(name)] = "."
    /\ ~loop.ret

----------------------------------------------------------------------------
(* is_cheap_name *)

\* Names the cheap-name specification is enumerated up to.
MaxCheapLen == 4

CheapAlphabet == {"a", "b", "A", "1", ".", "-", "/", "_"}

\* the scan returning false as soon as it meets a vowel
RECURSIVE CheapScan_vowel_returns(_, _, _)
CheapScan_vowel_returns(n, k, v) ==
    IF k > Len(n) THEN TRUE
    ELSE LET c == n[k]
         IN  IF c \in Digit THEN TRUE
             ELSE IF c \in {".", "-", "/"} THEN TRUE
             ELSE IF c \in Vowel THEN FALSE
             ELSE CheapScan_vowel_returns(n, k + 1, v)

\* the for loop of is_cheap_name from character k (1-based) on, v as in the
\* code, and the two returns after it
RECURSIVE CheapScan(_, _, _)
CheapScan(n, k, v) ==
    IF k > Len(n) THEN (IF ~v THEN TRUE ELSE FALSE)
    ELSE LET c == n[k]
         IN  IF c \in Digit THEN TRUE
             ELSE IF c \in {".", "-", "/"} THEN TRUE
             ELSE CheapScan(n, k + 1, IF c \in Vowel THEN TRUE ELSE v)

is_cheap_name(n) == CheapScan(n, 1, FALSE)

InitCheap ==
    /\ name \in Strings(CheapAlphabet, MaxCheapLen)
    /\ loop = LoopInit
    /\ cheap = "none"
    /\ op = NoOp
    /\ sched = NoSched
    /\ pc = "idle"
    /\ err = "none"
    /\ pos = 0
    /\ fee = -1
    /\ build = "value"

IsCheapNameCall ==
    /\ cheap = "none"
    /\ cheap' = IF is_cheap_name(name) THEN "true" ELSE "false"
    /\ UNCHANGED <<name, loop, op, sched, pc, err, pos, fee, build>>

NextCheap == IsCheapNameCall

SpecCheap == InitCheap /\ [][NextCheap]_vars

\* the classification as the specification states it
HasCheapChar(n) == \E k \in 1..Len(n) : n[k] \in Digit \cup {".", "-", "/"}
HasVowel(n) == \E k \in 1..Len(n) : n[k] \in Vowel
CheapRule(n) == HasCheapChar(n) \/ ~HasVowel(n)

\* C2: is_cheap_name(n) is true iff n contains a decimal digit, '.', '-' or
\* '/' at any position, before or after a vowel, or n contains no vowel; it
\* is false exactly when n has a vowel and none of those characters.
C2_CheapIffDigitPunctOrNoVowel ==
    cheap # "none" =>
        /\ (cheap = "true") = CheapRule(name)
        /\ (cheap = "false") = (HasVowel(name) /\ ~HasCheapChar(name))

\* a digit after a vowel still makes the name cheap
C2_Witness ==
    /\ cheap = "true"
    /\ Len(name) >= 2
    /\ name[1] \in Vowel
    /\ name[Len(name)] \in Digit

----------------------------------------------------------------------------
(* Operations: their fields *)

\* fc::optional
None == [valid |-> FALSE]
Some(x) == [valid |-> TRUE, v |-> x]
Optional(S) == {None} \cup {Some(x) : x \in S}

\* authority, by the members validate() uses: the number of key (and
\* account) auths, of address auths, and whether the threshold is beyond the
\* sum of the weights.
Authorities == [key_auths : {0, 1}, address_auths : {0, 1}, impossible : BOOLEAN]

num_auths(a) == a.key_auths + a.address_auths

is_impossible(a) == a.impossible

GoodAuthority == [key_auths |-> 1, address_auths |-> 0, impossible |-> FALSE]

SomeAuthorities ==
    { GoodAuthority,
      [key_auths |-> 0, address_auths |-> 0, impossible |-> FALSE],
      [key_auths |-> 1, address_auths |-> 1, impossible |-> FALSE],
      [key_auths |-> 1, address_auths |-> 0, impossible |-> TRUE] }

GRAPHENE_100_PERCENT == 10000

GRAPHENE_TEMP_ACCOUNT == "temp-account"

\* account_id_type()
DefaultAccount == "default-account"

Accounts == {GRAPHENE_TEMP_ACCOUNT, DefaultAccount, "some-account"}

VoteTypes == {"witness", "committee", "worker"}

\* account_options::future_extensions
void_t == [tag |-> "void_t"]
vote_committee_size == [tag |-> "vote_committee_size"]
OptionsExtensions == {void_t, vote_committee_size}

\* account_update_operation::future_extensions
CommitteeSizes == {0, 1, 2}
create_committee(mn, mx) ==
    [tag |-> "create_committee", min_committee_size |-> mn, max_committee_size |-> mx]
update_committee(mn, mx) ==
    [tag |-> "update_committee", min_committee_size |-> mn, max_committee_size |-> mx]
OperationExtensions ==
    {void_t}
        \cup {create_committee(a, b) : a \in CommitteeSizes, b \in CommitteeSizes}
        \cup {update_committee(a, b) : a \in Optional(CommitteeSizes),
                                       b \in Optional(CommitteeSizes)}

----------------------------------------------------------------------------
(* account_options::validate *)

\* the loop over votes from vote k on: <<needed_witnesses, needed_committee>>
RECURSIVE Needed(_, _, _, _)
Needed(votes, k, needed_witnesses, needed_committee) ==
    IF k > Len(votes) THEN <<needed_witnesses, needed_committee>>
    ELSE IF votes[k] = "witness" /\ needed_witnesses # 0
         THEN Needed(votes, k + 1, needed_witnesses - 1, needed_committee)
    ELSE IF votes[k] = "committee" /\ needed_committee # 0
         THEN Needed(votes, k + 1, needed_witnesses, needed_committee - 1)
    ELSE Needed(votes, k + 1, needed_witnesses, needed_committee)

\* the votes counted against the numbers the other way round: the check
\* fails when more are voted for than num_witness / num_committee
account_options_validate_at_most(o) ==
    /\ Cardinality({k \in 1..Len(o.votes) : o.votes[k] = "witness"}) <= o.num_witness
    /\ Cardinality({k \in 1..Len(o.votes) : o.votes[k] = "committee"}) <= o.num_committee

\* TRUE when the FC_ASSERT passes
account_options_validate(o) ==
    LET n == Needed(o.votes, 1, o.num_witness, o.num_committee)
    IN  n[1] = 0 /\ n[2] = 0

----------------------------------------------------------------------------
(* The extension visitors: "ok", or the FC_ASSERT that throws *)

account_create_operation_options_ext_validate_visitor(e) ==
    CASE e.tag = "void_t" -> "ok"
      [] e.tag = "vote_committee_size" -> "FC_ASSERT( false )"

\* the update visitor with the body of the create visitor
account_update_operation_options_ext_rejecting(e) ==
    CASE e.tag = "void_t" -> "ok"
      [] e.tag = "vote_committee_size" -> "FC_ASSERT( false )"

account_update_operation_options_ext_validate_visitor(e) ==
    CASE e.tag = "void_t" -> "ok"
      [] e.tag = "vote_committee_size" -> "ok"

\* `e.max_committee_size > 0` on the optional itself (line 243): the value
\* compared where the build compares optionals by value, the flag where it
\* converts the optional to bool.
OptionalGreaterThanZero(x, b) ==
    IF b = "value" THEN x.v > 0 ELSE (IF x.valid THEN 1 ELSE 0) > 0

account_update_operation_ext_validate_visitor(e, b) ==
    CASE e.tag = "void_t" -> "ok"
      [] e.tag = "create_committee" ->
            IF ~(e.min_committee_size > 0) THEN "e.min_committee_size > 0"
            ELSE IF ~(e.max_committee_size > 0) THEN "e.max_committee_size > 0"
            ELSE IF ~(e.min_committee_size <= e.max_committee_size)
                 THEN "e.min_committee_size <= e.max_committee_size"
            ELSE "ok"
      [] e.tag = "update_committee" ->
            IF e.min_committee_size.valid /\ ~(e.min_committee_size.v > 0)
                 THEN "*(e.min_committee_size) > 0"
            ELSE IF e.max_committee_size.valid
                    /\ ~OptionalGreaterThanZero(e.max_committee_size, b)
                 THEN "e.max_committee_size > 0"
            ELSE IF e.min_committee_size.valid /\ e.max_committee_size.valid
                    /\ ~(e.min_committee_size.v <= e.max_committee_size.v)
                 THEN "*(e.min_committee_size) <= *(e.max_committee_size)"
            ELSE "ok"

----------------------------------------------------------------------------
(* validate(): the FC_ASSERTs before the extension loops, in source order *)

\* the three checks of each authority kept together, owner before active
account_create_validate_rules_by_authority ==
    << "fee.amount >= 0",
       "is_valid_name( name )",
       "referrer_percent <= GRAPHENE_100_PERCENT",
       "owner.num_auths() != 0",
       "owner.address_auths.size() == 0",
       "!owner.is_impossible()",
       "active.num_auths() != 0",
       "active.address_auths.size() == 0",
       "!active.is_impossible()",
       "options.validate()" >>

account_create_validate_rules ==
    << "fee.amount >= 0",
       "is_valid_name( name )",
       "referrer_percent <= GRAPHENE_100_PERCENT",
       "owner.num_auths() != 0",
       "owner.address_auths.size() == 0",
       "active.num_auths() != 0",
       "active.address_auths.size() == 0",
       "!owner.is_impossible()",
       "!active.is_impossible()",
       "options.validate()" >>

account_create_rule_holds(rule, o) ==
    CASE rule = "fee.amount >= 0" -> o.fee_amount >= 0
      [] rule = "is_valid_name( name )" -> is_valid_name(o.name)
      [] rule = "referrer_percent <= GRAPHENE_100_PERCENT" ->
            o.referrer_percent <= GRAPHENE_100_PERCENT
      [] rule = "owner.num_auths() != 0" -> num_auths(o.owner) # 0
      [] rule = "owner.address_auths.size() == 0" -> o.owner.address_auths = 0
      [] rule = "active.num_auths() != 0" -> num_auths(o.active) # 0
      [] rule = "active.address_auths.size() == 0" -> o.active.address_auths = 0
      [] rule = "!owner.is_impossible()" -> ~is_impossible(o.owner)
      [] rule = "!active.is_impossible()" -> ~is_impossible(o.active)
      [] rule = "options.validate()" -> account_options_validate(o.options)

\* the update without FC_ASSERT( owner || active || new_options )
account_update_validate_rules_no_field_check ==
    << "account != GRAPHENE_TEMP_ACCOUNT",
       "fee.amount >= 0",
       "account != account_id_type()",
       "owner->num_auths() != 0",
       "owner->address_auths.size() == 0",
       "!owner->is_impossible()",
       "active->num_auths() != 0",
       "active->address_auths.size() == 0",
       "!active->is_impossible()",
       "new_options->validate()" >>

account_update_validate_rules ==
    << "account != GRAPHENE_TEMP_ACCOUNT",
       "fee.amount >= 0",
       "account != account_id_type()",
       "owner || active || new_options",
       "owner->num_auths() != 0",
       "owner->address_auths.size() == 0",
       "!owner->is_impossible()",
       "active->num_auths() != 0",
       "active->address_auths.size() == 0",
       "!active->is_impossible()",
       "new_options->validate()" >>

\* a check inside if( owner ), if( active ), if( new_options ) holds when
\* the field is not set
account_update_rule_holds(rule, o) ==
    CASE rule = "account != GRAPHENE_TEMP_ACCOUNT" -> o.account # GRAPHENE_TEMP_ACCOUNT
      [] rule = "fee.amount >= 0" -> o.fee_amount >= 0
      [] rule = "account != account_id_type()" -> o.account # DefaultAccount
      [] rule = "owner || active || new_options" ->
            o.owner.valid \/ o.active.valid \/ o.new_options.valid
      [] rule = "owner->num_auths() != 0" ->
            o.owner.valid => num_auths(o.owner.v) # 0
      [] rule = "owner->address_auths.size() == 0" ->
            o.owner.valid => o.owner.v.address_auths = 0
      [] rule = "!owner->is_impossible()" ->
            o.owner.valid => ~is_impossible(o.owner.v)
      [] rule = "active->num_auths() != 0" ->
            o.active.valid => num_auths(o.active.v) # 0
      [] rule = "active->address_auths.size() == 0" ->
            o.active.valid => o.active.v.address_auths = 0
      [] rule = "!active->is_impossible()" ->
            o.active.valid => ~is_impossible(o.active.v)
      [] rule = "new_options->validate()" ->
            o.new_options.valid => account_options_validate(o.new_options.v)

----------------------------------------------------------------------------
(* validate() as steps.  pc: "rules" (pos: the FC_ASSERT it is at),          *)
(* "options_ext" and "ext" (pos: the extensions visited so far), "done".     *)

Throw(what) ==
    /\ err' = what
    /\ pc' = "done"
    /\ pos' = pos

\* account_create_operation::validate, lines 187-196
CreateRuleStep ==
    /\ op.kind = "create"
    /\ pc = "rules"
    /\ IF ~account_create_rule_holds(account_create_validate_rules[pos], op)
       THEN Throw(account_create_validate_rules[pos])
       ELSE /\ err' = err
            /\ IF pos = Len(account_create_validate_rules)
               THEN pc' = "options_ext" /\ pos' = 0
               ELSE pc' = pc /\ pos' = pos + 1
    /\ UNCHANGED <<name, loop, cheap, op, sched, fee, build>>

\* account_create_operation::validate, lines 198-203
CreateOptionsExtStep ==
    /\ op.kind = "create"
    /\ pc = "options_ext"
    /\ IF pos >= Len(op.options.extensions)
       THEN pc' = "done" /\ pos' = pos /\ err' = err
       ELSE LET r == account_create_operation_options_ext_validate_visitor(
                         op.options.extensions[pos + 1])
            IN  IF r = "ok" THEN pc' = pc /\ pos' = pos + 1 /\ err' = err
                ELSE Throw(r)
    /\ UNCHANGED <<name, loop, cheap, op, sched, fee, build>>

\* account_update_operation::validate, lines 254-273
UpdateRuleStep ==
    /\ op.kind = "update"
    /\ pc = "rules"
    /\ IF ~account_update_rule_holds(account_update_validate_rules[pos], op)
       THEN Throw(account_update_validate_rules[pos])
       ELSE /\ err' = err
            /\ IF pos = Len(account_update_validate_rules)
               THEN pc' = "options_ext" /\ pos' = 0
               ELSE pc' = pc /\ pos' = pos + 1
    /\ UNCHANGED <<name, loop, cheap, op, sched, fee, build>>

\* account_update_operation::validate, lines 274-279
UpdateOptionsExtStep ==
    /\ op.kind = "update"
    /\ pc = "options_ext"
    /\ IF ~op.new_options.valid \/ pos >= Len(op.new_options.v.extensions)
       THEN pc' = "ext" /\ pos' = 0 /\ err' = err
       ELSE LET r == account_update_operation_options_ext_validate_visitor(
                         op.new_options.v.extensions[pos + 1])
            IN  IF r = "ok" THEN pc' = pc /\ pos' = pos + 1 /\ err' = err
                ELSE Throw(r)
    /\ UNCHANGED <<name, loop, cheap, op, sched, fee, build>>

\* account_update_operation::validate, lines 282-289.  The visitor declared
\* there, account_operation_ext_validate_visitor, is the one this file
\* defines for the operation's extensions.
UpdateExtStep ==
    /\ op.kind = "update"
    /\ pc = "ext"
    /\ IF pos >= Len(op.extensions)
       THEN pc' = "done" /\ pos' = pos /\ err' = err
       ELSE LET r == account_update_operation_ext_validate_visitor(
                         op.extensions[pos + 1], build)
            IN  IF r = "ok" THEN pc' = pc /\ pos' = pos + 1 /\ err' = err
                ELSE Throw(r)
    /\ UNCHANGED <<name, loop, cheap, op, sched, fee, build>>

----------------------------------------------------------------------------
(* The operations validate() is run on *)

\* The longest options.extensions and operation extensions enumerated.
MaxOptionsExt == 2
MaxOperationExt == 2

\* The longest votes and the largest num_witness / num_committee enumerated.
MaxVotes == 3
MaxNum == 2

Builds == {"value", "valid"}

GoodName == <<"b", "a", "b">>
BadName == <<"b", "A", "b">>

GoodOptions ==
    [num_witness |-> 0, num_committee |-> 0, votes |-> <<>>, extensions |-> <<>>]

\* options with and without enough votes, and every short extension list
SomeOptions ==
    [num_witness : {1}, num_committee : {0}, votes : {<<>>, <<"witness">>},
     extensions : Strings(OptionsExtensions, MaxOptionsExt)]

\* every short list of votes against every pair of numbers
VoteOptions ==
    [num_witness : 0..MaxNum, num_committee : 0..MaxNum,
     votes : Strings(VoteTypes, MaxVotes), extensions : {<<>>}]

CreateOps ==
    [kind : {"create"}, fee_amount : {-1, 0}, name : {GoodName, BadName},
     referrer_percent : {GRAPHENE_100_PERCENT, GRAPHENE_100_PERCENT + 1},
     owner : Authorities, active : Authorities, options : SomeOptions, size : {0}]
        \cup
    [kind : {"create"}, fee_amount : {0}, name : {GoodName},
     referrer_percent : {0}, owner : {GoodAuthority}, active : {GoodAuthority},
     options : VoteOptions, size : {0}]

UpdateOps ==
    [kind : {"update"}, fee_amount : {-1, 0}, account : Accounts,
     owner : Optional(SomeAuthorities), active : Optional(SomeAuthorities),
     new_options : Optional(SomeOptions),
     extensions : {<<>>, <<void_t>>, <<create_committee(1, 2)>>, <<create_committee(2, 1)>>},
     size : {0}]
        \cup
    [kind : {"update"}, fee_amount : {0}, account : {"some-account"},
     owner : {Some(GoodAuthority)}, active : {None},
     new_options : {None} \cup {Some(o) : o \in VoteOptions},
     extensions : {<<>>}, size : {0}]
        \cup
    [kind : {"update"}, fee_amount : {0}, account : {"some-account"},
     owner : {Some(GoodAuthority)}, active : {None}, new_options : {None},
     extensions : Strings(OperationExtensions, MaxOperationExt), size : {0}]

InitValidate ==
    /\ name = <<>>
    /\ loop = LoopInit
    /\ cheap = "none"
    /\ op \in CreateOps \cup UpdateOps
    /\ sched = NoSched
    /\ pc = "rules"
    /\ err = "none"
    /\ pos = 1
    /\ fee = -1
    /\ build \in Builds

NextValidate ==
    \/ CreateRuleStep
    \/ CreateOptionsExtStep
    \/ UpdateRuleStep
    \/ UpdateOptionsExtStep
    \/ UpdateExtStep

SpecValidate == InitValidate /\ [][NextValidate]_vars

----------------------------------------------------------------------------
(* What the claims say of validate() *)

Range(q) == {q[k] : k \in 1..Len(q)}

WitnessVotes(o) == Cardinality({k \in 1..Len(o.votes) : o.votes[k] = "witness"})
CommitteeVotes(o) == Cardinality({k \in 1..Len(o.votes) : o.votes[k] = "committee"})

\* the options of the operation, when it has any
OptionsOf(o) == IF o.kind = "create" THEN Some(o.options) ELSE o.new_options

OptionsRule(o) ==
    IF o.kind = "create" THEN "options.validate()" ELSE "new_options->validate()"

RulesBeforeOptions(o) ==
    { "fee.amount >= 0", "is_valid_name( name )",
      "referrer_percent <= GRAPHENE_100_PERCENT",
      "account != GRAPHENE_TEMP_ACCOUNT", "account != account_id_type()",
      "owner || active || new_options",
      "owner.num_auths() != 0", "owner.address_auths.size() == 0",
      "!owner.is_impossible()", "active.num_auths() != 0",
      "active.address_auths.size() == 0", "!active.is_impossible()",
      "owner->num_auths() != 0", "owner->address_auths.size() == 0",
      "!owner->is_impossible()", "active->num_auths() != 0",
      "active->address_auths.size() == 0", "!active->is_impossible()" }

\* validate() has called options.validate() and it has returned or thrown
OptionsValidated ==
    /\ op.kind \in {"create", "update"}
    /\ OptionsOf(op).valid
    /\ pc # "rules"
    /\ err \notin RulesBeforeOptions(op)

\* C3, as amended: account_options::validate() accepts the options iff the
\* witness-tagged votes are at least num_witness and the committee-tagged
\* votes at least num_committee; more votes than the number are accepted.
C3_AcceptsIffEnoughVotes ==
    OptionsValidated =>
        LET o == OptionsOf(op).v
        IN  (err # OptionsRule(op)) <=>
                /\ WitnessVotes(o) >= o.num_witness
                /\ CommitteeVotes(o) >= o.num_committee

\* C3, as claimed: the options are accepted only if the witness-tagged votes
\* do not exceed num_witness and the committee-tagged votes do not exceed
\* num_committee.
C3_AcceptsOnlyIfVotesWithinNumbers ==
    OptionsValidated =>
        LET o == OptionsOf(op).v
        IN  (err # OptionsRule(op)) =>
                /\ WitnessVotes(o) <= o.num_witness
                /\ CommitteeVotes(o) <= o.num_committee

\* options with more witness votes than num_witness pass options.validate()
C3_Witness ==
    /\ OptionsValidated
    /\ err # OptionsRule(op)
    /\ WitnessVotes(OptionsOf(op).v) > OptionsOf(op).v.num_witness
    /\ OptionsOf(op).v.num_witness > 0

\* the first rule of the list that o violates, then the first extension of
\* options.extensions that is not the placeholder; "none" when there is none
FirstCreateFailure(rules, o) ==
    LET bad == {k \in 1..Len(rules) : ~account_create_rule_holds(rules[k], o)}
        ext == {k \in 1..Len(o.options.extensions) : o.options.extensions[k] # void_t}
    IN  IF bad # {} THEN rules[CHOOSE k \in bad : \A h \in bad : k <= h]
        ELSE IF ext # {} THEN "FC_ASSERT( false )"
        ELSE "none"

\* the order of the source: both authorities' auths before either threshold
C9_SourceOrder ==
    << "fee.amount >= 0", "is_valid_name( name )",
       "referrer_percent <= GRAPHENE_100_PERCENT",
       "owner.num_auths() != 0", "owner.address_auths.size() == 0",
       "active.num_auths() != 0", "active.address_auths.size() == 0",
       "!owner.is_impossible()", "!active.is_impossible()",
       "options.validate()" >>

\* the order of the claim: the owner's three checks, then the active's
C9_ClaimedOrder ==
    << "fee.amount >= 0", "is_valid_name( name )",
       "referrer_percent <= GRAPHENE_100_PERCENT",
       "owner.num_auths() != 0", "owner.address_auths.size() == 0",
       "!owner.is_impossible()",
       "active.num_auths() != 0", "active.address_auths.size() == 0",
       "!active.is_impossible()",
       "options.validate()" >>

\* C9, as amended: account-create validate() reports the first violated rule
\* in the order fee >= 0; name grammar; referrer percentage; owner has an
\* auth; owner has no address auth; active has an auth; active has no
\* address auth; owner threshold possible; active threshold possible;
\* options vote counts; options extensions in insertion order.
C9_ReportsFirstInSourceOrder ==
    (op.kind = "create" /\ pc = "done") =>
        err = FirstCreateFailure(C9_SourceOrder, op)

\* C9, as claimed: the owner's impossible threshold is checked before the
\* active authority.
C9_ReportsFirstInClaimedOrder ==
    (op.kind = "create" /\ pc = "done") =>
        err = FirstCreateFailure(C9_ClaimedOrder, op)

\* the claim's example: the owner threshold is impossible, the active
\* authority has no auths, and the active failure is the one reported
C9_Witness ==
    /\ op.kind = "create"
    /\ pc = "done"
    /\ is_impossible(op.owner)
    /\ num_auths(op.owner) # 0
    /\ op.owner.address_auths = 0
    /\ num_auths(op.active) = 0
    /\ err = "active.num_auths() != 0"

\* an authority that passes the three checks of validate()
AuthorityOk(a) ==
    /\ num_auths(a) # 0
    /\ a.address_auths = 0
    /\ ~is_impossible(a)

EnoughVotes(o) ==
    /\ WitnessVotes(o) >= o.num_witness
    /\ CommitteeVotes(o) >= o.num_committee

FieldsSet(o) ==
    Cardinality({f \in {"owner", "active", "new_options"} : o[f].valid})

\* each field that is set passes its own checks; the Update-options dispatch
\* of new_options.extensions rejects nothing
SetFieldsOk(o) ==
    /\ o.owner.valid => AuthorityOk(o.owner.v)
    /\ o.active.valid => AuthorityOk(o.active.v)
    /\ o.new_options.valid => EnoughVotes(o.new_options.v)

\* an operation-level extension as the specification accepts it
ExtensionAcceptable(e) ==
    CASE e.tag = "void_t" -> TRUE
      [] e.tag = "create_committee" ->
            /\ e.min_committee_size > 0
            /\ e.max_committee_size > 0
            /\ e.min_committee_size <= e.max_committee_size
      [] e.tag = "update_committee" ->
            /\ e.min_committee_size.valid => e.min_committee_size.v > 0
            /\ e.max_committee_size.valid => e.max_committee_size.v > 0
            /\ (e.min_committee_size.valid /\ e.max_committee_size.valid)
                   => e.min_committee_size.v <= e.max_committee_size.v

\* C6, as amended: account-update validate() fails when the account is the
\* temporary account, fails when none of owner, active and new_options is
\* set, and succeeds when exactly one of them is set and passes its own
\* checks, provided also that the fee is not negative, the account is not
\* the default account_id_type() and every operation-level extension is
\* acceptable.
C6_UpdateValidate ==
    (op.kind = "update" /\ pc = "done") =>
        /\ op.account = GRAPHENE_TEMP_ACCOUNT => err # "none"
        /\ FieldsSet(op) = 0 => err # "none"
        /\ ( /\ FieldsSet(op) = 1
             /\ SetFieldsOk(op)
             /\ op.account # GRAPHENE_TEMP_ACCOUNT
             /\ op.fee_amount >= 0
             /\ op.account # DefaultAccount
             /\ \A k \in 1..Len(op.extensions) : ExtensionAcceptable(op.extensions[k]) )
           => err = "none"

\* C6, as claimed: with an account that is not the temporary account, the
\* update succeeds when exactly one of owner, active and new_options is set
\* and that field passes its own checks.
C6_UpdateValidateAsClaimed ==
    (op.kind = "update" /\ pc = "done") =>
        /\ op.account = GRAPHENE_TEMP_ACCOUNT => err # "none"
        /\ FieldsSet(op) = 0 => err # "none"
        /\ ( /\ FieldsSet(op) = 1
             /\ SetFieldsOk(op)
             /\ op.account # GRAPHENE_TEMP_ACCOUNT )
           => err = "none"

\* an update with only new_options set, a vote-committee-size extension in
\* them and an operation-level extension has been accepted
C6_Witness ==
    /\ op.kind = "update"
    /\ pc = "done"
    /\ err = "none"
    /\ FieldsSet(op) = 1
    /\ op.new_options.valid
    /\ op.new_options.v.extensions # <<>>
    /\ op.extensions # <<>>

\* validate() has come to the loop over the operation's extensions
ExtensionsDispatched ==
    /\ op.kind = "update"
    /\ pc = "done"
    /\ err \notin RulesBeforeOptions(op) \cup {OptionsRule(op)}

OperationExtErrors ==
    { "e.min_committee_size > 0", "e.max_committee_size > 0",
      "e.min_committee_size <= e.max_committee_size",
      "*(e.min_committee_size) > 0",
      "*(e.min_committee_size) <= *(e.max_committee_size)" }

\* C8: account-create validate() fails whenever options.extensions holds a
\* vote-committee-size at any position, and passes a list of placeholders
\* when its other rules pass; account-update validate() never fails on
\* new_options.extensions, whatever they hold: its only failures are those
\* of its rules and of the operation's own extensions.
C8_OptionsExtensionsByContext ==
    /\ (op.kind = "create" /\ pc = "done") =>
          /\ (\E k \in 1..Len(op.options.extensions) :
                  op.options.extensions[k] = vote_committee_size) => err # "none"
          /\ ( /\ \A k \in 1..Len(op.options.extensions) :
                      op.options.extensions[k] = void_t
               /\ err \notin Range(C9_SourceOrder) ) => err = "none"
    /\ (op.kind = "update" /\ pc = "done") =>
          /\ err \in {"none"} \cup RulesBeforeOptions(op) \cup {OptionsRule(op)}
                        \cup OperationExtErrors
          /\ ( /\ op.new_options.valid
               /\ SetFieldsOk(op)
               /\ op.account \notin {GRAPHENE_TEMP_ACCOUNT, DefaultAccount}
               /\ op.fee_amount >= 0
               /\ op.extensions = <<>> ) => err = "none"

\* an update whose new_options.extensions hold a vote-committee-size after a
\* placeholder has been accepted
C8_Witness ==
    /\ op.kind = "update"
    /\ pc = "done"
    /\ err = "none"
    /\ op.new_options.valid
    /\ op.new_options.v.extensions = <<void_t, vote_committee_size>>

----------------------------------------------------------------------------
(* calculate_fee *)

\* fc::raw::pack_size(*this): the serialized size, a number the operation
\* carries here.
pack_size(o) == o.size

\* calculate_data_fee of the fee schedule: the price of the bytes, in whole
\* units per 1024 bytes.
calculate_data_fee(bytes, price_per_kbyte) == (bytes * price_per_kbyte) \div 1024

\* the two tiers taken the wrong way round
account_create_calculate_fee_swapped(o, k) ==
    LET core_fee_required == IF ~is_cheap_name(o.name) THEN k.basic_fee ELSE k.premium_fee
        data_fee == calculate_data_fee(pack_size(o), k.price_per_kbyte)
    IN  core_fee_required + data_fee

account_create_calculate_fee(o, k) ==
    LET core_fee_required == IF ~is_cheap_name(o.name) THEN k.premium_fee ELSE k.basic_fee
        data_fee == calculate_data_fee(pack_size(o), k.price_per_kbyte)
    IN  core_fee_required + data_fee

\* the data fee charged without looking at new_options
account_update_calculate_fee_always(o, k) ==
    k.fee + calculate_data_fee(pack_size(o), k.price_per_kbyte)

account_update_calculate_fee(o, k) ==
    IF o.new_options.valid
    THEN k.fee + calculate_data_fee(pack_size(o), k.price_per_kbyte)
    ELSE k.fee

\* The longest name calculate_fee is run on.
MaxFeeNameLen == 3

FeeSizes == {100, 1024, 5000}
Prices == {0, 1, 1000}

FeeCreateOps ==
    [kind : {"create"}, fee_amount : {0},
     name : Strings({"a", "b", "1", "."}, MaxFeeNameLen),
     referrer_percent : {0}, owner : {GoodAuthority}, active : {GoodAuthority},
     options : {GoodOptions}, size : FeeSizes]

FeeUpdateOps ==
    [kind : {"update"}, fee_amount : {0}, account : {"some-account"},
     owner : Optional({GoodAuthority}), active : Optional({GoodAuthority}),
     new_options : Optional({GoodOptions}),
     extensions : {<<>>, <<create_committee(1, 2)>>}, size : FeeSizes]

CreateFeeParameters ==
    [basic_fee : {5, 20}, premium_fee : {5, 2000}, price_per_kbyte : Prices]

UpdateFeeParameters == [fee : {0, 20}, price_per_kbyte : Prices]

InitFee ==
    /\ name = <<>>
    /\ loop = LoopInit
    /\ cheap = "none"
    /\ \/ op \in FeeCreateOps /\ sched \in CreateFeeParameters
       \/ op \in FeeUpdateOps /\ sched \in UpdateFeeParameters
    /\ pc = "idle"
    /\ err = "none"
    /\ pos = 0
    /\ fee = -1
    /\ build = "value"

CreateCalculateFee ==
    /\ op.kind = "create"
    /\ fee = -1
    /\ fee' = account_create_calculate_fee(op, sched)
    /\ UNCHANGED <<name, loop, cheap, op, sched, pc, err, pos, build>>

UpdateCalculateFee ==
    /\ op.kind = "update"
    /\ fee = -1
    /\ fee' = account_update_calculate_fee(op, sched)
    /\ UNCHANGED <<name, loop, cheap, op, sched, pc, err, pos, build>>

NextFee ==
    \/ CreateCalculateFee
    \/ UpdateCalculateFee

SpecFee == InitFee /\ [][NextFee]_vars

\* C4: the fee of an account-create operation is basic_fee plus the data fee
\* of its serialized size when its name is cheap, and premium_fee plus that
\* data fee when it is not.
C4_CreateFee ==
    (op.kind = "create" /\ fee # -1) =>
        fee = (IF CheapRule(op.name) THEN sched.basic_fee ELSE sched.premium_fee)
                + calculate_data_fee(op.size, sched.price_per_kbyte)

\* a premium name, with a data fee on top of the premium fee
C4_Witness ==
    /\ op.kind = "create"
    /\ fee # -1
    /\ ~CheapRule(op.name)
    /\ sched.premium_fee # sched.basic_fee
    /\ calculate_data_fee(op.size, sched.price_per_kbyte) > 0
    /\ fee > sched.premium_fee

\* C5: the fee of an account-update operation is schedule.fee when
\* new_options is absent, whatever its size, and schedule.fee plus the data
\* fee of its serialized size when new_options is present.
C5_UpdateFee ==
    (op.kind = "update" /\ fee # -1) =>
        fee = IF op.new_options.valid
              THEN sched.fee + calculate_data_fee(op.size, sched.price_per_kbyte)
              ELSE sched.fee

\* a large update with owner, active and extensions but no new_options
\* pays the flat fee
C5_Witness ==
    /\ op.kind = "update"
    /\ fee # -1
    /\ ~op.new_options.valid
    /\ op.owner.valid /\ op.active.valid /\ op.extensions # <<>>
    /\ calculate_data_fee(op.size, sched.price_per_kbyte) > 0
    /\ fee = sched.fee

====
